---- MODULE Spec2Model ----
(***************************************************************************)
(* A model of two pieces of the boa engine:                                *)
(*   - the BigInt builtin (boa/src/builtins/bigint/mod.rs): make_bigint,   *)
(*     to_string, as_int_n, as_uint_n, each one call = one action;         *)
(*   - the UpdateExpression parser                                         *)
(*     (boa/src/syntax/parser/expression/update.rs), one action per cursor *)
(*     operation or sub-parse of `parse`.                                  *)
(* SpecBigInt runs the builtin, SpecParser runs the parser.                *)
(***************************************************************************)
EXTENDS Integers, Sequences, FiniteSets, TLC

VARIABLES
    bpc,        \* BigInt side: "idle" | "returned" | "unused"
    call,       \* the builtin call in progress: [fn, this, args]
    outcome,    \* what the call ended in: Ok(value) | Err(..) | Panic(..)
    powExps,    \* the exponents the call handed to AstBigInt::pow
    tokens,     \* parser side: the token stream behind the cursor
    pos,        \* number of tokens the cursor has consumed
    pc,         \* position inside UpdateExpression::parse
    op,         \* the UnaryOp chosen by the last match on a peeked token
    lhs,        \* the operand node returned by the sub-parser
    result,     \* ParseResult of parse: Ok(node) | Err(error) | none
    peeked,     \* what the parser's last own peek saw, if no cursor
                \* operation came after it: [at, tok]
    ownPeeks,   \* number of peek() calls issued by parse itself
    ownNexts,   \* number of next() calls issued by parse itself
    subNexts,   \* number of tokens consumed by the operand sub-parse
    blindNext,  \* TRUE once parse issued a next() not covered by its peek
    fault       \* TRUE once an expect("token disappeared") fired

bigintVars == <<bpc, call, outcome, powExps>>
parserVars == <<tokens, pos, pc, op, lhs, result, peeked, ownPeeks, ownNexts,
                subNexts, blindNext, fault>>
vars == <<bpc, call, outcome, powExps, tokens, pos, pc, op, lhs, result,
          peeked, ownPeeks, ownNexts, subNexts, blindNext, fault>>

(***************************************************************************)
(* Bounds of the model.                                                    *)
(***************************************************************************)
\* largest bit width handed to asIntN / asUintN
MaxBits == 9
\* BigInt operands range over -MaxVal .. MaxVal
MaxVal == 260
\* radix arguments range over -2 .. MaxRadix, in steps of one half
MaxRadix == 38
\* `this` of toString ranges over -MaxThis .. MaxThis
MaxThis == 40
\* longest token stream
MaxTokens == 4

(***************************************************************************)
(* Runtime values (builtins::value::Value), as far as the builtin reads    *)
(* them.  A number is kept in halves, so that 3.5 is NumberV(7).  A string *)
(* is the sequence of its characters.                                      *)
(***************************************************************************)
Undefined == [t |-> "undefined"]
BigIntV(i) == [t |-> "bigint", n |-> i]
NumberV(h) == [t |-> "number", halves |-> h]
StringV(cs) == [t |-> "string", chars |-> cs]

\* ResultValue and the abort of the process
Ok(v) == [kind |-> "ok", value |-> v]
Err(name, msg) == [kind |-> "err", error |-> name, message |-> msg]
Panic(why) == [kind |-> "panic", why |-> why]
NoOutcome == [kind |-> "none"]

DigitChars ==
    << "0", "1", "2", "3", "4", "5", "6", "7", "8", "9", "a", "b", "c", "d",
       "e", "f", "g", "h", "i", "j", "k", "l", "m", "n", "o", "p", "q", "r",
       "s", "t", "u", "v", "w", "x", "y", "z" >>

IsDecimalDigit(c) == \E i \in 1..10 : DigitChars[i] = c
DigitValue(c) == (CHOOSE i \in 1..10 : DigitChars[i] = c) - 1

RECURSIVE ParseDecimal(_, _)
\* the value of a sequence of decimal digits, most significant first
ParseDecimal(cs, acc) ==
    IF cs = <<>> THEN acc
    ELSE ParseDecimal(Tail(cs), acc * 10 + DigitValue(Head(cs)))

IsDecimalString(cs) ==
    /\ Len(cs) > 0
    /\ \A i \in 1..Len(cs) : IsDecimalDigit(cs[i])

RECURSIVE NatToRadix(_, _)
\* digits of a natural number in base radix, most significant first
NatToRadix(n, radix) ==
    IF n < radix THEN << DigitChars[n + 1] >>
    ELSE Append(NatToRadix(n \div radix, radix), DigitChars[(n % radix) + 1])

\* AstBigInt::to_str_radix: optional "-", then the digits, no leading zeros
ToStrRadix(n, radix) ==
    IF n < 0 THEN << "-" >> \o NatToRadix(-n, radix) ELSE NatToRadix(n, radix)

\* to_str_radix accepts the radix handed to it (after `as u32`) only in 2..36;
\* a negative i32 casts to a value above 2^31, which is out of range as well
RadixAccepted(radix) == radix >= 2 /\ radix <= 36

\* Value::to_integer: truncation towards zero; a non-number gives 0
ToInteger(v) ==
    IF v.t = "number"
    THEN IF v.halves >= 0 THEN v.halves \div 2 ELSE -((-v.halves) \div 2)
    ELSE 0

\* Value::to_bigint: Some(n) | None
ToBigInt(v) ==
    CASE v.t = "bigint" -> [ok |-> TRUE, n |-> v.n]
      [] v.t = "number" ->
            IF v.halves % 2 = 0 THEN [ok |-> TRUE, n |-> v.halves \div 2]
            ELSE [ok |-> FALSE, n |-> 0]
      [] v.t = "string" ->
            IF IsDecimalString(v.chars)
            THEN [ok |-> TRUE, n |-> ParseDecimal(v.chars, 0)]
            ELSE [ok |-> FALSE, n |-> 0]
      [] OTHER -> [ok |-> FALSE, n |-> 0]

\* Value::to_index: Ok(index) | Err(kind)
ToIndex(v) ==
    CASE v.t = "number" ->
            IF v.halves % 2 # 0 \/ v.halves < 0
            THEN [ok |-> FALSE, n |-> 0, error |-> "RangeError"]
            ELSE [ok |-> TRUE, n |-> v.halves \div 2, error |-> "none"]
      [] v.t = "string" ->
            IF IsDecimalString(v.chars)
            THEN [ok |-> TRUE, n |-> ParseDecimal(v.chars, 0), error |-> "none"]
            ELSE [ok |-> FALSE, n |-> 0, error |-> "RangeError"]
      [] v.t = "bigint" -> [ok |-> FALSE, n |-> 0, error |-> "TypeError"]
      [] OTHER -> [ok |-> FALSE, n |-> 0, error |-> "RangeError"]

\* impl Display for Value: the text the value is formatted as
Display(v) ==
    CASE v.t = "bigint" -> Append(ToStrRadix(v.n, 10), "n")
      [] v.t = "number" ->
            LET i == ToInteger(v)
                whole == IF v.halves < 0 /\ i = 0 THEN << "-", "0" >>
                         ELSE ToStrRadix(i, 10)
            IN  IF v.halves % 2 = 0 THEN whole ELSE whole \o << ".", "5" >>
      [] v.t = "string" -> v.chars
      [] OTHER -> << "undefined" >>

\* RangeError::run_new(message, ctx)?: the error value that is thrown
RangeErrorRunNew(msg) == Err("RangeError", msg)

RECURSIVE Pow(_, _)
\* AstBigInt::pow for an exponent >= 0
Pow(b, e) == IF e <= 0 THEN 1 ELSE b * Pow(b, e - 1)

\* AstBigInt::pow takes an exponent >= 0 only
PowDefined(e) == e >= 0

\* the `%` of AstBigInt, for a positive modulus
Rem(a, m) == a % m

\* u32::try_from(bits).unwrap_or(u32::MAX), the smaller of bits and 2^32 - 1:
\* every index drawn here is far below 2^32 - 1 (which is beyond the integers
\* TLC computes with), so the conversion succeeds and gives bits
ClampU32(bits) == bits

(***************************************************************************)
(* The builtin functions, each from its arguments to its outcome.          *)
(***************************************************************************)
CantConvertMsg(v) ==
    Display(v) \o << " can't be converted to BigInt because it isn't an integer" >>

\* make_bigint with the failed conversion defaulting to 0 instead of throwing
MakeBigIntDefaultsToZero(args) ==
    IF Len(args) >= 1
    THEN IF ToBigInt(args[1]).ok
         THEN Ok(BigIntV(ToBigInt(args[1]).n))
         ELSE Ok(BigIntV(0))
    ELSE Ok(BigIntV(0))

\* BigInt::make_bigint
MakeBigInt(args) ==
    IF Len(args) >= 1
    THEN IF ToBigInt(args[1]).ok
         THEN Ok(BigIntV(ToBigInt(args[1]).n))
         ELSE RangeErrorRunNew(CantConvertMsg(args[1]))
    ELSE Ok(BigIntV(0))

\* the guard of to_string's radix check, as written
RadixRejected(radix) == radix < 2 /\ radix > 36

\* BigInt::to_string
BigIntToString(this, args) ==
    LET radix == IF Len(args) # 0 THEN ToInteger(args[1]) ELSE 10
    IN  IF RadixRejected(radix)
        THEN RangeErrorRunNew(
                 << "radix must be an integer at least 2 and no greater than 36" >>)
        ELSE IF ~ToBigInt(this).ok
        THEN Panic("unwrap on None")
        ELSE IF ~RadixAccepted(radix)
        THEN Panic("to_str_radix: radix out of range")
        ELSE Ok(StringV(ToStrRadix(ToBigInt(this).n, radix)))

\* the exponents as_int_n hands to pow, in the order of evaluation
AsIntNPowExps(args) ==
    IF Len(args) # 2 \/ ~ToIndex(args[1]).ok \/ ~ToBigInt(args[2]).ok
    THEN {}
    ELSE LET bits == ClampU32(ToIndex(args[1]).n)
         IN  {bits, bits - 1}

\* as_int_n comparing with `>` where the code has `>=`
AsIntNStrictCompare(args) ==
    IF Len(args) # 2 THEN Panic("not yet implemented")
    ELSE IF ~ToIndex(args[1]).ok
    THEN RangeErrorRunNew(
             << "bits must be convertable to a positive integral number" >>)
    ELSE IF ~ToBigInt(args[2]).ok
    THEN RangeErrorRunNew(<< "bigint must be convertable to BigInt" >>)
    ELSE LET bits == ClampU32(ToIndex(args[1]).n)
             bigint == ToBigInt(args[2]).n
             modulo == Rem(bigint, Pow(2, bits))
         IN  IF ~PowDefined(bits - 1)
             THEN Panic("BigInt negative exponent")
             ELSE IF modulo > Pow(2, bits - 1)
             THEN Ok(BigIntV(modulo - Pow(2, bits)))
             ELSE Ok(BigIntV(modulo))

\* BigInt::as_int_n
AsIntN(args) ==
    IF Len(args) # 2 THEN Panic("not yet implemented")
    ELSE IF ~ToIndex(args[1]).ok
    THEN RangeErrorRunNew(
             << "bits must be convertable to a positive integral number" >>)
    ELSE IF ~ToBigInt(args[2]).ok
    THEN RangeErrorRunNew(<< "bigint must be convertable to BigInt" >>)
    ELSE LET bits == ClampU32(ToIndex(args[1]).n)
             bigint == ToBigInt(args[2]).n
             modulo == Rem(bigint, Pow(2, bits))
         IN  IF ~PowDefined(bits - 1)
             THEN Panic("BigInt negative exponent")
             ELSE IF modulo >= Pow(2, bits - 1)
             THEN Ok(BigIntV(modulo - Pow(2, bits)))
             ELSE Ok(BigIntV(modulo))

\* the exponents as_uint_n hands to pow
AsUintNPowExps(args) ==
    IF Len(args) # 2 \/ ~ToIndex(args[1]).ok \/ ~ToBigInt(args[2]).ok
    THEN {}
    ELSE {ClampU32(ToIndex(args[1]).n)}

\* a remainder that takes the sign of the dividend
TruncRem(a, m) == IF a >= 0 THEN a % m ELSE -((-a) % m)

\* as_uint_n reducing with the truncating remainder
AsUintNTruncating(args) ==
    IF Len(args) # 2 THEN Panic("not yet implemented")
    ELSE IF ~ToIndex(args[1]).ok
    THEN RangeErrorRunNew(
             << "bits must be convertable to a positive integral number" >>)
    ELSE IF ~ToBigInt(args[2]).ok
    THEN RangeErrorRunNew(<< "bigint must be convertable to BigInt" >>)
    ELSE LET bits == ClampU32(ToIndex(args[1]).n)
             bigint == ToBigInt(args[2]).n
         IN  Ok(BigIntV(TruncRem(bigint, Pow(2, bits))))

\* BigInt::as_uint_n
AsUintN(args) ==
    IF Len(args) # 2 THEN Panic("not yet implemented")
    ELSE IF ~ToIndex(args[1]).ok
    THEN RangeErrorRunNew(
             << "bits must be convertable to a positive integral number" >>)
    ELSE IF ~ToBigInt(args[2]).ok
    THEN RangeErrorRunNew(<< "bigint must be convertable to BigInt" >>)
    ELSE LET bits == ClampU32(ToIndex(args[1]).n)
             bigint == ToBigInt(args[2]).n
         IN  Ok(BigIntV(Rem(bigint, Pow(2, bits))))

(***************************************************************************)
(* The arguments the calls are drawn from.                                 *)
(***************************************************************************)
OddValues ==
    { NumberV(7), NumberV(-7), NumberV(-1), NumberV(20),
      StringV(<< "1", "0" >>), StringV(<< "2", "5", "5" >>),
      StringV(<< "x" >>), StringV(<<>>), Undefined }

BigArgs == { BigIntV(i) : i \in (-MaxVal)..MaxVal } \cup OddValues

BitsArgs ==
    { NumberV(h) : h \in (-2)..(2 * MaxBits) }
        \cup { Undefined, BigIntV(1), StringV(<< "8" >>), StringV(<< "x" >>) }

WidthArgLists ==
    { <<>> }
        \cup { << b >> : b \in BitsArgs }
        \cup { << b, v >> : b \in BitsArgs, v \in BigArgs }
        \cup { << b, BigIntV(1), Undefined >> : b \in BitsArgs }

MakeArgLists ==
    { <<>> }
        \cup { << v >> : v \in BigArgs }
        \cup { << v, Undefined >> : v \in OddValues }

RadixArgLists ==
    { <<>> }
        \cup { << NumberV(h) >> : h \in (-4)..(2 * MaxRadix) }
        \cup { << Undefined >> }

ThisValues == { BigIntV(i) : i \in (-MaxThis)..MaxThis } \cup { Undefined }

NoCall == [fn |-> "none", this |-> Undefined, args |-> <<>>]

(***************************************************************************)
(* The parser's variables at rest (SpecBigInt) and the builtin's at rest   *)
(* (SpecParser).                                                           *)
(***************************************************************************)
NoPeek == [at |-> -1, tok |-> "none"]
NoResult == [kind |-> "none"]

ParserAtRest ==
    /\ tokens = <<>>
    /\ pos = 0
    /\ pc = "unused"
    /\ op = "none"
    /\ lhs = <<>>
    /\ result = NoResult
    /\ peeked = NoPeek
    /\ ownPeeks = 0
    /\ ownNexts = 0
    /\ subNexts = 0
    /\ blindNext = FALSE
    /\ fault = FALSE

BigIntAtRest ==
    /\ bpc = "unused"
    /\ call = NoCall
    /\ outcome = NoOutcome
    /\ powExps = {}

(***************************************************************************)
(* SpecBigInt: the interpreter calls a builtin and gets its outcome back.  *)
(***************************************************************************)
InitBigInt ==
    /\ bpc = "idle"
    /\ call = NoCall
    /\ outcome = NoOutcome
    /\ powExps = {}
    /\ ParserAtRest

CallMakeBigInt ==
    /\ bpc = "idle"
    /\ \E args \in MakeArgLists :
          /\ call' = [fn |-> "BigInt", this |-> Undefined, args |-> args]
          /\ outcome' = MakeBigInt(args)
    /\ powExps' = {}
    /\ bpc' = "returned"
    /\ UNCHANGED parserVars

CallToString ==
    /\ bpc = "idle"
    /\ \E this \in ThisValues, args \in RadixArgLists :
          /\ call' = [fn |-> "toString", this |-> this, args |-> args]
          /\ outcome' = BigIntToString(this, args)
    /\ powExps' = {}
    /\ bpc' = "returned"
    /\ UNCHANGED parserVars

CallAsIntN ==
    /\ bpc = "idle"
    /\ \E args \in WidthArgLists :
          /\ call' = [fn |-> "asIntN", this |-> Undefined, args |-> args]
          /\ outcome' = AsIntN(args)
          /\ powExps' = AsIntNPowExps(args)
    /\ bpc' = "returned"
    /\ UNCHANGED parserVars

CallAsUintN ==
    /\ bpc = "idle"
    /\ \E args \in WidthArgLists :
          /\ call' = [fn |-> "asUintN", this |-> Undefined, args |-> args]
          /\ outcome' = AsUintN(args)
          /\ powExps' = AsUintNPowExps(args)
    /\ bpc' = "returned"
    /\ UNCHANGED parserVars

\* the interpreter takes the returned value or error and goes on; a panic
\* ends the process
Return ==
    /\ bpc = "returned"
    /\ outcome.kind # "panic"
    /\ bpc' = "idle"
    /\ call' = NoCall
    /\ outcome' = NoOutcome
    /\ powExps' = {}
    /\ UNCHANGED parserVars

NextBigInt ==
    \/ CallMakeBigInt
    \/ CallToString
    \/ CallAsIntN
    \/ CallAsUintN
    \/ Return

SpecBigInt == InitBigInt /\ [][NextBigInt]_vars

(***************************************************************************)
(* Tokens, the cursor and the operand sub-parser.                          *)
(***************************************************************************)
Inc == "++"
Dec == "--"
Dot == "."
Semicolon == ";"
Identifiers == { "x", "y" }
Tokens == { Inc, Dec, Dot, Semicolon } \cup Identifiers
NoToken == "none"

TokenStreams == UNION { [1..n -> Tokens] : n \in 0..MaxTokens }

\* Cursor::peek(skip) on a cursor that has consumed p tokens: Some(tok) | None
CursorPeek(toks, p, skip) ==
    IF p + skip + 1 <= Len(toks) THEN toks[p + skip + 1] ELSE NoToken

\* ParseError values
AbruptEnd == [kind |-> "AbruptEnd"]
Unexpected(tok) == [kind |-> "Unexpected", tok |-> tok]
ParseErr(e) == [kind |-> "err", error |-> e]

\* AST nodes, written in prefix order as sequences of strings
IdentifierNode(name) == << "Identifier", name >>
MemberNode(obj, field) == << "GetConstField", field >> \o obj
\* Node::unary_op(op, operand)
UnaryOpNode(o, operand) == << "UnaryOp", o >> \o operand

RECURSIVE MemberTail(_, _, _)
\* the `. name` accesses that follow a primary expression
MemberTail(toks, p, node) ==
    IF CursorPeek(toks, p, 0) # Dot
    THEN [ok |-> TRUE, node |-> node, next |-> p, err |-> AbruptEnd]
    ELSE IF CursorPeek(toks, p + 1, 0) = NoToken
    THEN [ok |-> FALSE, node |-> <<>>, next |-> p + 1, err |-> AbruptEnd]
    ELSE IF CursorPeek(toks, p + 1, 0) \in Identifiers
    THEN MemberTail(toks, p + 2, MemberNode(node, CursorPeek(toks, p + 1, 0)))
    ELSE [ok |-> FALSE, node |-> <<>>, next |-> p + 2,
          err |-> Unexpected(CursorPeek(toks, p + 1, 0))]

\* LeftHandSideExpression::parse from a cursor that has consumed p tokens:
\* the node or the error, and the cursor position it leaves
LeftHandSideParse(toks, p) ==
    IF CursorPeek(toks, p, 0) = NoToken
    THEN [ok |-> FALSE, node |-> <<>>, next |-> p, err |-> AbruptEnd]
    ELSE IF CursorPeek(toks, p, 0) \in Identifiers
    THEN MemberTail(toks, p + 1, IdentifierNode(CursorPeek(toks, p, 0)))
    ELSE [ok |-> FALSE, node |-> <<>>, next |-> p + 1,
          err |-> Unexpected(CursorPeek(toks, p, 0))]

(***************************************************************************)
(* SpecParser: one run of UpdateExpression::parse over a token stream.     *)
(***************************************************************************)
InitParser ==
    /\ tokens \in TokenStreams
    /\ pos = 0
    /\ pc = "start"
    /\ op = "none"
    /\ lhs = <<>>
    /\ result = NoResult
    /\ peeked = NoPeek
    /\ ownPeeks = 0
    /\ ownNexts = 0
    /\ subNexts = 0
    /\ blindNext = FALSE
    /\ fault = FALSE
    /\ BigIntAtRest

\* the prefix operator a first token selects
PrefixOp(tok) == IF tok = Inc THEN "IncrementPre" ELSE "DecrementPre"

\* the postfix operator a token after the operand selects
PostfixOp(tok) == IF tok = Inc THEN "IncrementPost" ELSE "DecrementPost"

\* cursor.next().expect("token disappeared"), issued by parse itself
OwnNext ==
    IF CursorPeek(tokens, pos, 0) = NoToken
    THEN /\ fault' = TRUE
         /\ UNCHANGED <<pos, ownNexts, blindNext, peeked>>
    ELSE /\ pos' = pos + 1
         /\ ownNexts' = ownNexts + 1
         /\ blindNext' = (blindNext \/ peeked.at # pos \/ peeked.tok \notin {Inc, Dec})
         /\ peeked' = NoPeek
         /\ fault' = fault

\* let tok = cursor.peek(0).ok_or(AbruptEnd)?; match tok.kind
PeekFirst ==
    /\ pc = "start"
    /\ LET tok == CursorPeek(tokens, pos, 0)
       IN  /\ peeked' = [at |-> pos, tok |-> tok]
           /\ ownPeeks' = ownPeeks + 1
           /\ IF tok = NoToken
              THEN /\ result' = ParseErr(AbruptEnd)
                   /\ pc' = "done"
                   /\ op' = op
              ELSE IF tok \in {Inc, Dec}
              THEN /\ op' = PrefixOp(tok)
                   /\ pc' = "prefix_next"
                   /\ result' = result
              ELSE /\ pc' = "operand"
                   /\ UNCHANGED <<op, result>>
    /\ UNCHANGED <<tokens, pos, lhs, ownNexts, subNexts, blindNext, fault>>
    /\ UNCHANGED bigintVars

\* the next() of the Inc and Dec arms of the first match
ConsumePrefix ==
    /\ pc = "prefix_next"
    /\ OwnNext
    /\ pc' = IF fault' THEN "panicked" ELSE "prefix_operand"
    /\ UNCHANGED <<tokens, op, lhs, result, ownPeeks, subNexts>>
    /\ UNCHANGED bigintVars

\* the prefix arm falling through to the postfix check instead of returning
ParsePrefixOperandThenPostfix ==
    /\ pc = "prefix_operand"
    /\ LET r == LeftHandSideParse(tokens, pos)
       IN  /\ pos' = r.next
           /\ subNexts' = subNexts + (r.next - pos)
           /\ IF r.ok
              THEN /\ lhs' = UnaryOpNode(op, r.node)
                   /\ pc' = "postfix_peek"
                   /\ result' = result
              ELSE /\ result' = ParseErr(r.err)
                   /\ pc' = "done"
                   /\ lhs' = lhs
    /\ peeked' = NoPeek
    /\ UNCHANGED <<tokens, op, ownPeeks, ownNexts, blindNext, fault>>
    /\ UNCHANGED bigintVars

\* return Ok(Node::unary_op(op, LeftHandSideExpression.parse(cursor)?))
ParsePrefixOperand ==
    /\ pc = "prefix_operand"
    /\ LET r == LeftHandSideParse(tokens, pos)
       IN  /\ pos' = r.next
           /\ subNexts' = subNexts + (r.next - pos)
           /\ result' = IF r.ok THEN Ok(UnaryOpNode(op, r.node)) ELSE ParseErr(r.err)
    /\ pc' = "done"
    /\ peeked' = NoPeek
    /\ UNCHANGED <<tokens, op, lhs, ownPeeks, ownNexts, blindNext, fault>>
    /\ UNCHANGED bigintVars

\* the operand's error replaced by AbruptEnd instead of being passed on
ParseOperandMasksError ==
    /\ pc = "operand"
    /\ LET r == LeftHandSideParse(tokens, pos)
       IN  /\ pos' = r.next
           /\ subNexts' = subNexts + (r.next - pos)
           /\ IF r.ok
              THEN /\ lhs' = r.node
                   /\ pc' = "postfix_peek"
                   /\ result' = result
              ELSE /\ result' = ParseErr(AbruptEnd)
                   /\ pc' = "done"
                   /\ lhs' = lhs
    /\ peeked' = NoPeek
    /\ UNCHANGED <<tokens, op, ownPeeks, ownNexts, blindNext, fault>>
    /\ UNCHANGED bigintVars

\* let lhs = LeftHandSideExpression.parse(cursor)?;
ParseOperand ==
    /\ pc = "operand"
    /\ LET r == LeftHandSideParse(tokens, pos)
       IN  /\ pos' = r.next
           /\ subNexts' = subNexts + (r.next - pos)
           /\ IF r.ok
              THEN /\ lhs' = r.node
                   /\ pc' = "postfix_peek"
                   /\ result' = result
              ELSE /\ result' = ParseErr(r.err)
                   /\ pc' = "done"
                   /\ lhs' = lhs
    /\ peeked' = NoPeek
    /\ UNCHANGED <<tokens, op, ownPeeks, ownNexts, blindNext, fault>>
    /\ UNCHANGED bigintVars

\* the second peek demanding a token, as the first one does
PeekPostfixRequiresToken ==
    /\ pc = "postfix_peek"
    /\ LET tok == CursorPeek(tokens, pos, 0)
       IN  /\ peeked' = [at |-> pos, tok |-> tok]
           /\ ownPeeks' = ownPeeks + 1
           /\ IF tok \in {Inc, Dec}
              THEN /\ op' = PostfixOp(tok)
                   /\ pc' = "postfix_next"
                   /\ result' = result
              ELSE /\ result' = IF tok = NoToken THEN ParseErr(AbruptEnd) ELSE Ok(lhs)
                   /\ pc' = "done"
                   /\ op' = op
    /\ UNCHANGED <<tokens, pos, lhs, ownNexts, subNexts, blindNext, fault>>
    /\ UNCHANGED bigintVars

\* the second peek looking one token too far, peek(1)
PeekPostfixLooksAhead ==
    /\ pc = "postfix_peek"
    /\ LET tok == CursorPeek(tokens, pos, 1)
       IN  /\ peeked' = [at |-> pos + 1, tok |-> tok]
           /\ ownPeeks' = ownPeeks + 1
           /\ IF tok \in {Inc, Dec}
              THEN /\ op' = PostfixOp(tok)
                   /\ pc' = "postfix_next"
                   /\ result' = result
              ELSE /\ result' = Ok(lhs)
                   /\ pc' = "done"
                   /\ op' = op
    /\ UNCHANGED <<tokens, pos, lhs, ownNexts, subNexts, blindNext, fault>>
    /\ UNCHANGED bigintVars

\* if let Some(tok) = cursor.peek(0) { match tok.kind .. } Ok(lhs)
PeekPostfix ==
    /\ pc = "postfix_peek"
    /\ LET tok == CursorPeek(tokens, pos, 0)
       IN  /\ peeked' = [at |-> pos, tok |-> tok]
           /\ ownPeeks' = ownPeeks + 1
           /\ IF tok \in {Inc, Dec}
              THEN /\ op' = PostfixOp(tok)
                   /\ pc' = "postfix_next"
                   /\ result' = result
              ELSE /\ result' = Ok(lhs)
                   /\ pc' = "done"
                   /\ op' = op
    /\ UNCHANGED <<tokens, pos, lhs, ownNexts, subNexts, blindNext, fault>>
    /\ UNCHANGED bigintVars

\* the next() of the Inc and Dec arms of the second match, and the return
ConsumePostfix ==
    /\ pc = "postfix_next"
    /\ OwnNext
    /\ IF fault'
       THEN /\ pc' = "panicked"
            /\ result' = result
       ELSE /\ pc' = "done"
            /\ result' = Ok(UnaryOpNode(op, lhs))
    /\ UNCHANGED <<tokens, op, lhs, ownPeeks, subNexts>>
    /\ UNCHANGED bigintVars

NextParser ==
    \/ PeekFirst
    \/ ConsumePrefix
    \/ ParsePrefixOperand
    \/ ParseOperand
    \/ PeekPostfix
    \/ ConsumePostfix

SpecParser == InitParser /\ [][NextParser]_vars

(***************************************************************************)
(* The claims about the BigInt builtin, checked under SpecBigInt.          *)
(***************************************************************************)
Returned(fn) == bpc = "returned" /\ call.fn = fn

IsRangeError(o) == o.kind = "err" /\ o.error = "RangeError"

RECURSIVE TwoTo(_)
TwoTo(n) == IF n = 0 THEN 1 ELSE 2 * TwoTo(n - 1)

\* the call converted both arguments: bits to an index, the operand to a BigInt
WidthArgsConverted ==
    /\ Len(call.args) = 2
    /\ ToIndex(call.args[1]).ok
    /\ ToBigInt(call.args[2]).ok

\* C1: toString(radix) on a BigInt throws a RangeError for every integer
\* radix outside [2, 36] (1 and 37 among them) and for no radix inside [2, 36].
C1_ToStringRejectsRadixOutside2To36 ==
    ( /\ Returned("toString")
      /\ ToBigInt(call.this).ok
      /\ Len(call.args) = 1
      /\ call.args[1].t = "number"
      /\ call.args[1].halves % 2 = 0 )
    => LET radix == call.args[1].halves \div 2
       IN  /\ (radix < 2 \/ radix > 36) => IsRangeError(outcome)
           /\ (radix >= 2 /\ radix <= 36) => ~IsRangeError(outcome)

C4_MissingArgumentsFailCoercion ==
    ( /\ bpc = "returned"
      /\ call.fn \in {"asIntN", "asUintN"}
      /\ Len(call.args) < 2 )
    => /\ outcome.kind = "err"
       /\ outcome.error \in {"RangeError", "TypeError"}

\* C5: BigInt() is 0; BigInt(v) is ToBigInt(v) when that succeeds ("10" gives
\* 10) and otherwise a RangeError whose message starts with v's string form
\* (3.5 gives "3.5 can't be converted ..."); nothing else happens.
C5_MakeBigIntOutcomes ==
    Returned("BigInt")
    => /\ Len(call.args) = 0 => outcome = Ok(BigIntV(0))
       /\ (Len(call.args) >= 1 /\ ToBigInt(call.args[1]).ok)
            => outcome = Ok(BigIntV(ToBigInt(call.args[1]).n))
       /\ (Len(call.args) >= 1 /\ ~ToBigInt(call.args[1]).ok)
            => /\ IsRangeError(outcome)
               /\ Len(outcome.message) = Len(Display(call.args[1])) + 1
               /\ SubSeq(outcome.message, 1, Len(Display(call.args[1])))
                    = Display(call.args[1])
       /\ (Len(call.args) >= 1 /\ call.args[1] = StringV(<< "1", "0" >>))
            => outcome = Ok(BigIntV(10))
       /\ (Len(call.args) >= 1 /\ call.args[1] = NumberV(7))
            => /\ IsRangeError(outcome)
               /\ SubSeq(outcome.message, 1, 3) = << "3", ".", "5" >>

\* BigInt(3.5) has thrown its RangeError
C5_Witness ==
    /\ Returned("BigInt")
    /\ call.args = << NumberV(7) >>
    /\ IsRangeError(outcome)

\* C9: asIntN(0, v) returns 0 for every integer v, without a panic and
\* without handing pow a negative exponent.
C9_AsIntNZeroBitsIsZero ==
    ( /\ Returned("asIntN")
      /\ WidthArgsConverted
      /\ ToIndex(call.args[1]).n = 0 )
    => /\ outcome = Ok(BigIntV(0))
       /\ \A e \in powExps : e >= 0

(***************************************************************************)
(* The claims about UpdateExpression::parse, checked under SpecParser.     *)
(***************************************************************************)
StartsWithPrefixOp == Len(tokens) > 0 /\ tokens[1] \in {Inc, Dec}

\* C6: with Increment (Decrement) first, parse consumes that one token,
\* parses the operand and returns IncrementPrefix (DecrementPrefix) of it,
\* without peeking at or consuming what follows the operand:
\* [Increment, x, Increment] leaves the last Increment in the cursor.
C6_PrefixForm ==
    (pc = "done" /\ StartsWithPrefixOp /\ LeftHandSideParse(tokens, 1).ok)
    => LET r == LeftHandSideParse(tokens, 1)
           o == IF tokens[1] = Inc THEN "IncrementPre" ELSE "DecrementPre"
       IN  /\ result = Ok(<< "UnaryOp", o >> \o r.node)
           /\ ownNexts = 1
           /\ ownPeeks = 1
           /\ pos = r.next
           /\ tokens = << Inc, "x", Inc >>
                => /\ result = Ok(<< "UnaryOp", "IncrementPre", "Identifier", "x" >>)
                   /\ pos = 2

\* [Increment, x, Increment] has been parsed
C6_Witness ==
    /\ pc = "done"
    /\ tokens = << Inc, "x", Inc >>
    /\ result.kind = "ok"

\* C7: with another token first, parse parses the operand lhs; an Increment
\* (Decrement) right after it is consumed, it alone, and IncrementPostfix
\* (DecrementPostfix) of lhs is returned; with anything else, or nothing,
\* after the operand, lhs is returned as it is and nothing more is consumed.
C7_PostfixForm ==
    ( /\ pc = "done"
      /\ Len(tokens) > 0
      /\ ~StartsWithPrefixOp
      /\ LeftHandSideParse(tokens, 0).ok )
    => LET r == LeftHandSideParse(tokens, 0)
           after == IF r.next < Len(tokens) THEN tokens[r.next + 1] ELSE NoToken
       IN  /\ after = Inc
                => /\ result = Ok(<< "UnaryOp", "IncrementPost" >> \o r.node)
                   /\ pos = r.next + 1
                   /\ ownNexts = 1
           /\ after = Dec
                => /\ result = Ok(<< "UnaryOp", "DecrementPost" >> \o r.node)
                   /\ pos = r.next + 1
                   /\ ownNexts = 1
           /\ after \notin {Inc, Dec}
                => /\ result = Ok(r.node)
                   /\ pos = r.next
                   /\ ownNexts = 0
           /\ tokens = << "x", Inc >>
                => result = Ok(<< "UnaryOp", "IncrementPost", "Identifier", "x" >>)

\* [x] has been parsed: the cursor is exhausted after the operand
C7_Witness ==
    /\ pc = "done"
    /\ tokens = << "x" >>
    /\ result = Ok(<< "Identifier", "x" >>)

\* C8: on an empty token stream parse fails with AbruptEnd, with no node and
\* no token consumed; and an error of the operand sub-parse, in either
\* branch, is the error parse returns.
C8_Errors ==
    /\ pc # "done" => result = NoResult
    /\ (pc = "done" /\ tokens = <<>>)
         => /\ result = ParseErr(AbruptEnd)
            /\ pos = 0
            /\ ownNexts = 0
            /\ subNexts = 0
    /\ (pc = "done" /\ Len(tokens) > 0)
         => LET r == LeftHandSideParse(tokens, IF StartsWithPrefixOp THEN 1 ELSE 0)
            IN  ~r.ok => result = ParseErr(r.err)

\* [x, ., ;] has been parsed: the operand sub-parse met an unexpected token
C8_Witness ==
    /\ pc = "done"
    /\ tokens = << "x", Dot, Semicolon >>
    /\ result = ParseErr(Unexpected(Semicolon))

\* C10: every next() parse issues follows directly its own peek(0) that saw
\* Increment or Decrement at that position, so "token disappeared" never
\* fires; parse itself consumes at most one token, the operand sub-parse the
\* others; and the cursor position never decreases.
C10_CursorDiscipline ==
    /\ [](/\ ~fault
          /\ pc # "panicked"
          /\ ~blindNext
          /\ ownNexts <= 1
          /\ pos = ownNexts + subNexts)
    /\ [][pos' >= pos]_vars

\* [x, ., y, Decrement] has been parsed: parse consumed one token, the
\* operand sub-parse three
C10_Witness ==
    /\ pc = "done"
    /\ ownNexts = 1
    /\ subNexts = 3
    /\ pos = 4

====
